---- MODULE Spec2Model ----
(***************************************************************************)
(* Model of compose/parallel.py: parallel_execute, parallel_execute_iter,  *)
(* feed_queue, producer, State and ParallelStreamWriter.                   *)
(*                                                                         *)
(* One coordinator control flow (parallel_execute driving the generator    *)
(* parallel_execute_iter) plus one producer thread per started object.     *)
(* Producers only put onto the results Queue; the coordinator is the only  *)
(* mutator of State, the writer and the aggregator's locals.               *)
(***************************************************************************)
EXTENDS Integers, Sequences, FiniteSets, TLC

\* ---------------------------------------------------------------- bounds
NumObjs == 3        \* object identities 1..NumObjs the caller can pass
MaxLen  == 3        \* longest `objects` list passed to parallel_execute
MaxDeps == 2        \* most dependency edges get_deps reports in total
MaxCalls == 4       \* most calls made on a ParallelStreamWriter used alone

Objs == 1..NumObjs

None == "None"

\* Exception classes a work function can raise, as classified by the
\* isinstance chain of parallel_execute, plus the synthetic UpstreamError.
APIError             == "APIError"
OperationFailedError == "OperationFailedError"
Unexpected           == "Exception"
UpstreamError        == "UpstreamError"
Ok                   == "ok"

\* What func(obj) can do inside producer: return, or raise an Exception
\* (the work function's contract: a failure is capturable by `except
\* Exception`).
Outcomes == {Ok, APIError, OperationFailedError, Unexpected}

\* STOP = object(): a queue item distinct from every (obj, result, exc) tuple.
STOP == [obj |-> 0, kind |-> "STOP"]

Event(o, k) == [obj |-> o, kind |-> k]

VARIABLES
    objects,            \* list(objects) of parallel_execute
    deps,               \* get_deps: obj -> collection of objects
    name,               \* get_name: obj -> name
    msg,                \* ParallelStreamWriter.msg (None = display disabled)
    pc,                 \* position of the coordinator control flow
    started,            \* State.started
    finished,           \* State.finished
    failed,             \* State.failed
    queue,              \* the results Queue of parallel_execute_iter
    running,            \* producer threads that have not yet put their tuple
    invoked,            \* obj -> number of producer threads started for it
    events,             \* the events yielded so far by parallel_execute_iter
    results,            \* parallel_execute: results list
    errors,             \* parallel_execute: errors dict (name -> error)
    error_to_reraise,   \* parallel_execute: error_to_reraise
    lines,              \* ParallelStreamWriter.lines
    stream,             \* what has been written to the output stream
    calls               \* the calls made on a ParallelStreamWriter used alone

vars == <<objects, deps, name, msg, pc, started, finished, failed, queue,
          running, invoked, events, results, errors, error_to_reraise,
          lines, stream, calls>>

inputs == <<objects, deps, name, msg>>

Range(s) == {s[i] : i \in DOMAIN s}

\* set(self.objects)
Universe == Range(objects)

\* ------------------------------------------------------------ class State
\* Mutant: `>` instead of `>=`.
is_done_strict(fin, fl) == Cardinality(fin) + Cardinality(fl) > Len(objects)

\* State.is_done
is_done(fin, fl) == Cardinality(fin) + Cardinality(fl) >= Len(objects)

\* Mutant: pending() forgets to subtract state.started.
pending_ignoring_started(st, fin, fl) == (Universe \ fin) \ fl

\* Mutant: pending() forgets to subtract state.failed.
pending_ignoring_failed(st, fin, fl) == (Universe \ st) \ fin

\* State.pending
pending(st, fin, fl) == ((Universe \ st) \ fin) \ fl

\* ------------------------------------------------------------ feed_queue
\* Mutant: any failed object at all counts as an upstream error.
has_upstream_errors_anywhere(o, fl) == fl # {}

\* any(dep in state.failed for dep in deps)
has_upstream_errors(o, fl) == \E d \in deps[o] : d \in fl

\* Mutant: the membership test is inverted (`dep in objects or ...`).
deps_ready_inverted(o, fin) == \A d \in deps[o] : d \in Universe \/ d \in fin

\* Mutant: an object's dependency on itself is skipped.
deps_ready_skipping_self(o, fin) ==
    \A d \in deps[o] \ {o} : d \notin Universe \/ d \in fin

\* Mutant: the `dep not in objects` disjunct is missing, so that a
\* dependency outside the universe has to be in finished.
deps_ready_requiring_finished(o, fin) == \A d \in deps[o] : d \in fin

\* Mutant: `any` instead of `all` in the readiness test.
deps_ready_any(o, fin) ==
    deps[o] = {} \/ \E d \in deps[o] : d \notin Universe \/ d \in fin

\* all(dep not in objects or dep in state.finished for dep in deps)
deps_ready(o, fin) == \A d \in deps[o] : d \notin Universe \/ d \in fin

\* Mutant: the short-circuit branch forgets state.failed.add(obj).
feed_obj_forgetting_failed(st, o) ==
    IF has_upstream_errors(o, st.failed)
    THEN [st EXCEPT !.queue  = Append(@, Event(o, UpstreamError))]
    ELSE IF deps_ready(o, st.finished)
    THEN [st EXCEPT !.running = @ \cup {o},
                    !.invoked = [@ EXCEPT ![o] = @ + 1],
                    !.started = @ \cup {o}]
    ELSE st

\* Mutant: the short-circuit tests the dependencies against state.started.
feed_obj_shortcut_on_started(st, o) ==
    IF has_upstream_errors(o, st.started)
    THEN [st EXCEPT !.queue  = Append(@, Event(o, UpstreamError)),
                    !.failed = @ \cup {o}]
    ELSE IF deps_ready(o, st.finished)
    THEN [st EXCEPT !.running = @ \cup {o},
                    !.invoked = [@ EXCEPT ![o] = @ + 1],
                    !.started = @ \cup {o}]
    ELSE st

\* Mutant: the upstream-failure branch is missing.
feed_obj_without_shortcut(st, o) ==
    IF deps_ready(o, st.finished)
    THEN [st EXCEPT !.running = @ \cup {o},
                    !.invoked = [@ EXCEPT ![o] = @ + 1],
                    !.started = @ \cup {o}]
    ELSE st

\* Body of `for obj in pending` for one obj.  st carries what the loop
\* mutates: state.started, state.failed, the queue and the threads started.
feed_obj(st, o) ==
    IF has_upstream_errors(o, st.failed)
    THEN [st EXCEPT !.queue  = Append(@, Event(o, UpstreamError)),
                    !.failed = @ \cup {o}]
    ELSE IF deps_ready(o, st.finished)
    THEN [st EXCEPT !.running = @ \cup {o},
                    !.invoked = [@ EXCEPT ![o] = @ + 1],
                    !.started = @ \cup {o}]
    ELSE st

\* The for loop over the set `pending`, visited in the order `order`.
RECURSIVE feed_loop(_, _, _)
feed_loop(order, i, st) ==
    IF i > Len(order) THEN st
    ELSE feed_loop(order, i + 1, feed_obj(st, order[i]))

\* Iteration orders of a Python set: every permutation of its elements.
Orders(S) ==
    {f \in [1..Cardinality(S) -> S] : \A i, j \in DOMAIN f : f[i] = f[j] => i = j}

\* Mutant: STOP is put at the end of every pass.
put_stop_always(q, fin, fl) == Append(q, STOP)

\* if state.is_done(): results.put(STOP)
put_stop(q, fin, fl) == IF is_done(fin, fl) THEN Append(q, STOP) ELSE q

\* feed_queue(objects, func, get_deps, results, state): one admission pass.
\* The pass is one step: State is touched by the coordinator alone, and the
\* only thing a producer does is put on the thread-safe Queue.  STOP is put
\* only when is_done(), i.e. when no producer is left that could put behind
\* it, so a put interleaved with the pass changes no relative order between
\* an outcome and STOP, nor between an object's event and its dependencies'.
FeedQueue ==
    /\ pc = "feed"
    /\ \E order \in Orders(pending(started, finished, failed)) :
         LET st == feed_loop(order, 1,
                     [started |-> started, finished |-> finished,
                      failed |-> failed, queue |-> queue,
                      running |-> running, invoked |-> invoked])
         IN  /\ started' = st.started
             /\ failed'  = st.failed
             /\ running' = st.running
             /\ invoked' = st.invoked
             /\ queue'   = put_stop(st.queue, st.finished, st.failed)
    /\ pc' = "get"
    /\ UNCHANGED <<inputs, calls, finished, events, results, errors,
                   error_to_reraise, lines, stream>>

\* -------------------------------------------------------------- producer
\* producer(obj, func, results): func returns or raises; one tuple is put.
Producer(o, k) ==
    /\ o \in running
    /\ running' = running \ {o}
    /\ queue' = Append(queue, Event(o, k))
    /\ UNCHANGED <<inputs, calls, pc, started, finished, failed, invoked, events,
                   results, errors, error_to_reraise, lines, stream>>

\* -------------------------------------------------- ParallelStreamWriter
\* self.lines.index(obj_index): 0-based position of the first occurrence.
index(ln, n) ==
    (CHOOSE i \in 1..Len(ln) : ln[i] = n /\ \A j \in 1..(i - 1) : ln[j] # n) - 1

\* Mutant: initialize without the `if self.msg is None: return` guard.
initialize_without_guard(w, n) ==
    [w EXCEPT !.lines  = Append(@, n),
              !.stream = Append(@, <<"line", n, "">>)]

\* ParallelStreamWriter.initialize
initialize(w, n) ==
    IF w.msg = None THEN w
    ELSE [w EXCEPT !.lines  = Append(@, n),
                   !.stream = Append(@, <<"line", n, "">>)]

\* Mutant: diff is computed from a 1-based position.
write_off_by_one(w, n, status) ==
    IF w.msg = None THEN w
    ELSE LET diff == Len(w.lines) - index(w.lines, n) - 1
         IN  [w EXCEPT !.stream = @ \o << <<"up", diff, "">>,
                                           <<"erase", 0, "">>,
                                           <<"text", n, status>>,
                                           <<"down", diff, "">> >>]

\* ParallelStreamWriter.write
write(w, n, status) ==
    IF w.msg = None THEN w
    ELSE LET diff == Len(w.lines) - index(w.lines, n)
         IN  [w EXCEPT !.stream = @ \o << <<"up", diff, "">>,
                                           <<"erase", 0, "">>,
                                           <<"text", n, status>>,
                                           <<"down", diff, "">> >>]

\* for obj in objects: writer.initialize(get_name(obj))
RECURSIVE initialize_all(_, _)
initialize_all(i, w) ==
    IF i > Len(objects) THEN w
    ELSE initialize_all(i + 1, initialize(w, name[objects[i]]))

\* ------------------------------------------------------ parallel_execute
NoEntry == Event(0, None)       \* name not in errors
NoError == Event(0, None)       \* error_to_reraise = None

\* Mutant: the OperationFailedError branch is missing, so that such a
\* failure falls through to the final else.
handle_event_without_operation_failed(a, ev) ==
    LET n == name[ev.obj] IN
    IF ev.kind = Ok
    THEN [a EXCEPT !.writer  = write(@, n, "done"),
                   !.results = Append(@, ev.obj)]
    ELSE IF ev.kind = APIError
    THEN [a EXCEPT !.errors = [@ EXCEPT ![n] = ev],
                   !.writer = write(@, n, "error")]
    ELSE IF ev.kind = UpstreamError
    THEN [a EXCEPT !.writer = write(@, n, "error")]
    ELSE [a EXCEPT !.errors = [@ EXCEPT ![n] = ev],
                   !.error_to_reraise = ev]

\* Mutant: the UpstreamError branch is missing, so that an upstream failure
\* falls through to the final else and is recorded in errors.
handle_event_without_upstream(a, ev) ==
    LET n == name[ev.obj] IN
    IF ev.kind = Ok
    THEN [a EXCEPT !.writer  = write(@, n, "done"),
                   !.results = Append(@, ev.obj)]
    ELSE IF ev.kind = APIError
    THEN [a EXCEPT !.errors = [@ EXCEPT ![n] = ev],
                   !.writer = write(@, n, "error")]
    ELSE IF ev.kind = OperationFailedError
    THEN [a EXCEPT !.errors = [@ EXCEPT ![n] = ev],
                   !.writer = write(@, n, "error")]
    ELSE [a EXCEPT !.errors = [@ EXCEPT ![n] = ev],
                   !.error_to_reraise = ev]

\* Mutant: the APIError branch also appends to results.
handle_event_appending_failure(a, ev) ==
    LET n == name[ev.obj] IN
    IF ev.kind = Ok
    THEN [a EXCEPT !.writer  = write(@, n, "done"),
                   !.results = Append(@, ev.obj)]
    ELSE IF ev.kind = APIError
    THEN [a EXCEPT !.errors  = [@ EXCEPT ![n] = ev],
                   !.writer  = write(@, n, "error"),
                   !.results = Append(@, ev.obj)]
    ELSE IF ev.kind = OperationFailedError
    THEN [a EXCEPT !.errors = [@ EXCEPT ![n] = ev],
                   !.writer = write(@, n, "error")]
    ELSE IF ev.kind = UpstreamError
    THEN [a EXCEPT !.writer = write(@, n, "error")]
    ELSE [a EXCEPT !.errors = [@ EXCEPT ![n] = ev],
                   !.error_to_reraise = ev]

\* Body of `for obj, result, exception in events` for one event.  a carries
\* the aggregator's locals and the writer.
handle_event(a, ev) ==
    LET n == name[ev.obj] IN
    IF ev.kind = Ok
    THEN [a EXCEPT !.writer  = write(@, n, "done"),
                   !.results = Append(@, ev.obj)]
    ELSE IF ev.kind = APIError
    THEN [a EXCEPT !.errors = [@ EXCEPT ![n] = ev],
                   !.writer = write(@, n, "error")]
    ELSE IF ev.kind = OperationFailedError
    THEN [a EXCEPT !.errors = [@ EXCEPT ![n] = ev],
                   !.writer = write(@, n, "error")]
    ELSE IF ev.kind = UpstreamError
    THEN [a EXCEPT !.writer = write(@, n, "error")]
    ELSE [a EXCEPT !.errors = [@ EXCEPT ![n] = ev],
                   !.error_to_reraise = ev]

\* for obj_name, error in errors.items(): stream.write("\nERROR: ...")
\* in the order `order` of the dict's keys.
RECURSIVE write_errors(_, _, _)
write_errors(order, i, strm) ==
    IF i > Len(order) THEN strm
    ELSE write_errors(order, i + 1,
             Append(strm, <<"ERROR", order[i], errors[order[i]].kind>>))

\* parallel_execute up to the creation of the generator: the writer is
\* built and every object's line is registered; State(objects) is fresh.
ParallelExecute ==
    /\ pc = "start"
    /\ LET w == initialize_all(1, [msg |-> msg, lines |-> <<>>, stream |-> <<>>])
       IN  /\ lines' = w.lines
           /\ stream' = w.stream
    /\ pc' = "feed"
    /\ UNCHANGED <<inputs, calls, started, finished, failed, queue, running, invoked,
                   events, results, errors, error_to_reraise>>

\* ------------------------------------------------- parallel_execute_iter
\* results.get returns an outcome tuple: State is updated, the event is
\* yielded and parallel_execute's loop body handles it.
GetEvent ==
    /\ pc = "get"
    /\ queue # <<>>
    /\ Head(queue) # STOP
    /\ LET ev == Head(queue)
           a  == handle_event([writer |-> [msg |-> msg, lines |-> lines,
                                           stream |-> stream],
                               results |-> results, errors |-> errors,
                               error_to_reraise |-> error_to_reraise], ev)
       IN  /\ queue' = Tail(queue)
           /\ IF ev.kind = Ok
              THEN finished' = finished \cup {ev.obj} /\ failed' = failed
              ELSE failed' = failed \cup {ev.obj} /\ finished' = finished
           /\ events' = Append(events, ev)
           /\ results' = a.results
           /\ errors' = a.errors
           /\ error_to_reraise' = a.error_to_reraise
           /\ lines' = a.writer.lines
           /\ stream' = a.writer.stream
    /\ pc' = "feed"
    /\ UNCHANGED <<inputs, calls, started, running, invoked>>

\* results.get returns STOP: the generator ends; parallel_execute writes
\* the error summary and raises error_to_reraise or returns.
GetStop ==
    /\ pc = "get"
    /\ queue # <<>>
    /\ Head(queue) = STOP
    /\ queue' = Tail(queue)
    /\ \E order \in Orders({n \in DOMAIN errors : errors[n] # NoEntry}) :
         stream' = write_errors(order, 1, stream)
    /\ pc' = IF error_to_reraise # NoError THEN "raised" ELSE "returned"
    /\ UNCHANGED <<inputs, calls, started, finished, failed, running, invoked,
                   events, results, errors, error_to_reraise, lines>>

\* results.get(timeout=0.1) raises Empty: continue.
GetEmpty ==
    /\ pc = "get"
    /\ queue = <<>>
    /\ pc' = "feed"
    /\ UNCHANGED <<inputs, calls, started, finished, failed, queue, running, invoked,
                   events, results, errors, error_to_reraise, lines, stream>>

\* Mutant: the interrupt is reported as the failure of a running object.
GetInterrupt_as_failure ==
    /\ pc = "get"
    /\ \E o \in running :
          /\ events' = Append(events, Event(o, Unexpected))
          /\ failed' = failed \cup {o}
    /\ pc' = "shutdown"
    /\ UNCHANGED <<inputs, calls, started, finished, queue, running, invoked,
                   results, errors, error_to_reraise, lines, stream>>

\* results.get raises thread.error: ShutdownException leaves the generator
\* and parallel_execute.
GetInterrupt ==
    /\ pc = "get"
    /\ pc' = "shutdown"
    /\ UNCHANGED <<inputs, calls, started, finished, failed, queue, running, invoked,
                   events, results, errors, error_to_reraise, lines, stream>>

\* ------------------------------------------------------------- the inputs
\* The `objects` lists, duplicates included.  Objects are opaque identities,
\* so lists are enumerated up to renaming: the first occurrences come in the
\* order 1, 2, 3, ...
Lists ==
    {l \in UNION {[1..n -> Objs] : n \in 0..MaxLen} :
        \A i \in DOMAIN l : l[i] = 1 \/ \E j \in 1..(i - 1) : l[j] = l[i] - 1}

EdgeCount(f) ==
    LET RECURSIVE sum(_)
        sum(S) == IF S = {} THEN 0
                  ELSE LET o == CHOOSE x \in S : TRUE
                       IN  Cardinality(f[o]) + sum(S \ {o})
    IN  sum(DOMAIN f)

\* get_deps is only ever called on objects of the universe.
DepFns(objs) ==
    {f \in [Objs -> SUBSET Objs] :
        /\ \A o \in Objs \ Range(objs) : f[o] = {}
        /\ EdgeCount(f) <= MaxDeps}

\* get_name: an injective naming, and one that gives every object the
\* same name.
NameFns == {[o \in Objs |-> o], [o \in Objs |-> 1]}

Init ==
    /\ objects \in Lists
    /\ deps \in DepFns(objects)
    /\ name \in NameFns
    /\ msg \in {None, "Starting"}
    /\ pc = "start"
    /\ started = {}
    /\ finished = {}
    /\ failed = {}
    /\ queue = <<>>
    /\ running = {}
    /\ invoked = [o \in Objs |-> 0]
    /\ events = <<>>
    /\ results = <<>>
    /\ errors = [n \in Objs |-> NoEntry]
    /\ error_to_reraise = NoError
    /\ lines = <<>>
    /\ stream = <<>>
    /\ calls = <<>>

Next ==
    \/ ParallelExecute
    \/ FeedQueue
    \/ \E o \in Objs, k \in Outcomes : Producer(o, k)
    \/ GetEvent
    \/ GetStop
    \/ GetEmpty
    \/ GetInterrupt

Spec == Init /\ [][Next]_vars

\* Fair runs: the coordinator keeps taking its next step (the consumer keeps
\* iterating and no thread.error is delivered to the wait), and every
\* started producer eventually puts its tuple (func returns or raises).
Coordinator == ParallelExecute \/ FeedQueue \/ GetEvent \/ GetStop \/ GetEmpty

NextFair ==
    \/ Coordinator
    \/ \E o \in Objs, k \in Outcomes : Producer(o, k)

SpecFair ==
    /\ Init
    /\ [][NextFair]_vars
    /\ WF_vars(Coordinator)
    /\ \A o \in Objs : WF_vars(\E k \in Outcomes : Producer(o, k))

\* ------------------------------------- ParallelStreamWriter used alone
\* A caller that drives a ParallelStreamWriter directly with any sequence
\* of initialize and write calls, for any names.
Statuses == {"done", "error"}

\* writer.initialize(n)
Initialize(n) ==
    /\ pc = "writer"
    /\ Len(calls) < MaxCalls
    /\ LET w == initialize([msg |-> msg, lines |-> lines, stream |-> stream], n)
       IN  /\ lines' = w.lines
           /\ stream' = w.stream
    /\ calls' = Append(calls, <<"initialize", n, "">>)
    /\ UNCHANGED <<inputs, pc, started, finished, failed, queue, running,
                   invoked, events, results, errors, error_to_reraise>>

\* writer.write(n, status).  With display enabled and n not registered,
\* self.lines.index(n) raises ValueError before anything is written.
Write(n, status) ==
    /\ pc = "writer"
    /\ Len(calls) < MaxCalls
    /\ IF msg # None /\ n \notin Range(lines)
       THEN /\ calls' = Append(calls, <<"ValueError", n, status>>)
            /\ UNCHANGED <<lines, stream>>
       ELSE /\ LET w == write([msg |-> msg, lines |-> lines,
                               stream |-> stream], n, status)
               IN  /\ lines' = w.lines
                   /\ stream' = w.stream
            /\ calls' = Append(calls, <<"write", n, status>>)
    /\ UNCHANGED <<inputs, pc, started, finished, failed, queue, running,
                   invoked, events, results, errors, error_to_reraise>>

InitWriter ==
    /\ objects = <<>>
    /\ deps = [o \in Objs |-> {}]
    /\ name = [o \in Objs |-> o]
    /\ msg \in {None, "Starting"}
    /\ pc = "writer"
    /\ started = {}
    /\ finished = {}
    /\ failed = {}
    /\ queue = <<>>
    /\ running = {}
    /\ invoked = [o \in Objs |-> 0]
    /\ events = <<>>
    /\ results = <<>>
    /\ errors = [n \in Objs |-> NoEntry]
    /\ error_to_reraise = NoError
    /\ lines = <<>>
    /\ stream = <<>>
    /\ calls = <<>>

NextWriter ==
    \/ \E n \in Objs : Initialize(n)
    \/ \E n \in Objs, status \in Statuses : Write(n, status)

SpecWriter == InitWriter /\ [][NextWriter]_vars

\* What the terminal shows after the stream's content: the cursor's row
\* (0 = the row the cursor was on at the start) and the rows' contents.
\* "\r\n" and "\n" move to the next row, ESC[nA / ESC[nB move up / down n
\* rows (n = 0 counts as 1; the cursor stops at the top row), ESC[2K
\* blanks the cursor's row.
Blank == <<0, "">>

SetRow(scr, r, v) ==
    [k \in 1..(IF Len(scr) > r THEN Len(scr) ELSE r + 1) |->
        IF k = r + 1 THEN v ELSE IF k <= Len(scr) THEN scr[k] ELSE Blank]

show(t, e) ==
    LET d == IF e[2] = 0 THEN 1 ELSE e[2] IN
    IF e[1] = "line"
    THEN [row |-> t.row + 1, screen |-> SetRow(t.screen, t.row, <<e[2], "">>)]
    ELSE IF e[1] = "up"
    THEN [t EXCEPT !.row = IF @ > d THEN @ - d ELSE 0]
    ELSE IF e[1] = "down"
    THEN [t EXCEPT !.row = @ + d]
    ELSE IF e[1] = "erase"
    THEN [t EXCEPT !.screen = SetRow(@, t.row, Blank)]
    ELSE IF e[1] = "text"
    THEN [t EXCEPT !.screen = SetRow(@, t.row, <<e[2], e[3]>>)]
    ELSE [row |-> t.row + 2,
          screen |-> SetRow(t.screen, t.row + 1, <<e[2], e[3]>>)]

RECURSIVE render(_, _, _)
render(strm, i, t) ==
    IF i > Len(strm) THEN t ELSE render(strm, i + 1, show(t, strm[i]))

Terminal(strm) == render(strm, 1, [row |-> 0, screen |-> <<>>])

\* ------------------------------------------------------------ vocabulary
DistinctObjects == \A i, j \in DOMAIN objects : objects[i] = objects[j] => i = j

\* In-universe dependencies of o.
UDeps(o) == deps[o] \cap Universe

\* Objects reachable from o along one or more in-universe dependency edges.
RECURSIVE Closure(_)
Closure(S) ==
    LET T == S \cup UNION {UDeps(x) : x \in S \cap Universe}
    IN  IF T = S THEN S ELSE Closure(T)

TransDeps(o) == IF o \in Universe THEN Closure(UDeps(o)) ELSE {}

OnCycle(o) == o \in TransDeps(o)
HasCycle   == \E o \in Universe : OnCycle(o)

\* The event sequence has ended normally (STOP consumed, parallel_execute
\* has written its summary and returned or re-raised).
Ended == pc \in {"returned", "raised"}

EventsOf(o)  == {i \in DOMAIN events : events[i].obj = o}
QueuedOf(o)  == {i \in DOMAIN queue : queue[i].obj = o}
WorkerFailure == {APIError, OperationFailedError, Unexpected}

\* ------------------------------------------------------------ properties

\* C1: a producer thread is started for o only by an admission pass, and only
\* when every in-universe dependency of o is in finished (hence not pending,
\* not merely started and not failed).
C1_StartedOnlyAfterDepsFinished ==
    [][\A o \in Objs :
          (o \in started' /\ o \notin started) =>
             /\ pc = "feed"
             /\ \A d \in UDeps(o) :
                   /\ d \in finished
                   /\ d \notin failed
                   /\ d \notin pending(started, finished, failed)]_vars

\* An object with an in-universe dependency has been started.
C1_Witness == \E o \in started : UDeps(o) # {}

\* C2: for distinct objects no object is ever yielded twice, and once the
\* sequence has ended every object of the universe has exactly one event.
C2_OneEventPerObject ==
    DistinctObjects =>
        /\ \A o \in Objs : Cardinality(EventsOf(o)) <= 1
        /\ \A i \in DOMAIN events : events[i].obj \in Universe
        /\ Ended => \A o \in Universe : Cardinality(EventsOf(o)) = 1

\* A run of three distinct objects ended, one of them short-circuited.
C2_Witness ==
    /\ DistinctObjects
    /\ Len(objects) = 3
    /\ Ended
    /\ \E i \in DOMAIN events : events[i].kind = UpstreamError

\* C3: once an in-universe dependency d of o is in failed, o has never been
\* and is never started, o is eventually in failed, put there by an
\* admission pass together with its one event (o, None, UpstreamError), and
\* no other event is ever produced for o.
C3_UpstreamFailure ==
    /\ [](\A o \in Universe : \A d \in UDeps(o) :
            d \in failed =>
               /\ o \notin started
               /\ invoked[o] = 0
               /\ \A i \in EventsOf(o) : events[i].kind = UpstreamError
               /\ \A i \in QueuedOf(o) : queue[i].kind = UpstreamError
               /\ Cardinality(EventsOf(o)) + Cardinality(QueuedOf(o)) =
                     IF o \in failed THEN 1 ELSE 0)
    /\ \A o \in Objs : \A d \in Objs :
          (o \in Universe /\ d \in UDeps(o) /\ d \in failed) ~> (o \in failed)
    /\ [][\A o \in Universe :
            (o \notin failed /\ o \in failed' /\ \E d \in UDeps(o) : d \in failed')
               => pc = "feed"]_vars

\* The dependency's own work function raised, and the dependent's upstream
\* event has been yielded.
C3_Witness ==
    \E o \in Universe : \E d \in UDeps(o) :
        /\ o # d
        /\ d \in failed
        /\ \E i \in EventsOf(d) : events[i].kind \in WorkerFailure
        /\ \E i \in EventsOf(o) : events[i].kind = UpstreamError

\* C4: over all admission passes the work function is invoked at most once
\* per object: a thread is only ever started for an object that is in none
\* of started, finished, failed, and that had no thread before.
C4_AtMostOneInvocation ==
    [][\A o \in Objs :
          invoked'[o] # invoked[o] =>
             /\ invoked[o] = 0
             /\ invoked'[o] = 1
             /\ o \notin started \cup finished \cup failed]_vars

\* A later pass started o2 after its dependency o had been started and had
\* finished; o was not started again.
C4_Witness ==
    \E o, o2 \in Universe :
        /\ o # o2
        /\ o \in deps[o2]
        /\ o \in started \cap finished
        /\ o2 \in started
        /\ invoked[o] = 1

\* C5: no object is in both finished and failed; is_done() is true exactly
\* when every object of the universe is in finished or failed; at the end of
\* the run every object is in exactly one of the two sets.
C5_DoneIffAllTerminal ==
    /\ finished \cap failed = {}
    /\ is_done(finished, failed) <=> (Universe \subseteq finished \cup failed)
    /\ Ended => \A o \in Universe : (o \in finished) # (o \in failed)

\* C6: started, finished, failed and pending are pairwise disjoint.
C6_FourSetsDisjoint ==
    LET pend == pending(started, finished, failed)
    IN  /\ started \cap finished = {}
        /\ started \cap failed = {}
        /\ started \cap pend = {}
        /\ finished \cap failed = {}
        /\ finished \cap pend = {}
        /\ failed \cap pend = {}

\* C7: for distinct objects with an acyclic in-universe dependency relation,
\* a fair run reaches is_done(), consumes STOP and ends, having yielded
\* finitely many events (one per object).
C7_Terminates ==
    (DistinctObjects /\ ~HasCycle) =>
        <>(/\ Ended
           /\ is_done(finished, failed)
           /\ Len(events) = Len(objects))

\* Such a run has ended: three distinct objects in a dependency chain.
C7_Witness ==
    /\ DistinctObjects /\ ~HasCycle
    /\ Len(objects) = 3
    /\ \E a, b, c \in Universe :
          a # b /\ b # c /\ a # c /\ a \in deps[b] /\ b \in deps[c]
    /\ Ended

StopQueued == \E i \in DOMAIN queue : queue[i] = STOP

\* C8 as stated: with a cycle in the in-universe dependency relation the
\* objects on the cycle are never admitted and the run never reaches
\* is_done(): STOP is never published and the event sequence never ends.
C8_CycleNeverDone ==
    HasCycle =>
        /\ \A o \in Universe : OnCycle(o) => o \notin started
        /\ ~is_done(finished, failed)
        /\ ~StopQueued
        /\ ~Ended

\* C8 as amended: the objects on a cycle are never admitted; they become
\* terminal only through the upstream-failure shortcut, each because one of
\* its dependencies is in failed, and the run reaches is_done() (STOP
\* published, sequence ended) only when every object on a cycle has been
\* short-circuited that way.
C8_CycleNeverAdmitted ==
    HasCycle =>
        /\ \A o \in Universe : OnCycle(o) =>
              /\ o \notin started
              /\ invoked[o] = 0
              /\ o \notin finished
              /\ o \in failed => \E d \in UDeps(o) : d \in failed
              /\ \A i \in EventsOf(o) : events[i].kind = UpstreamError
        /\ (is_done(finished, failed) \/ StopQueued \/ Ended) =>
              \A o \in Universe : OnCycle(o) => o \in failed

\* A run with a cycle has ended: the object on the cycle was short-circuited.
C8_Witness ==
    /\ HasCycle
    /\ Ended
    /\ \E o \in Universe : OnCycle(o) /\ o \in failed

UnexpectedEvents == {i \in DOMAIN events : events[i].kind = Unexpected}

\* C9: an unexpected failure does not stop the draining: parallel_execute
\* raises or returns only after STOP, when every object is in finished or
\* failed, no outcome is left on the queue and every object without a failed
\* object among its transitive dependencies has had func invoked; it raises
\* iff some event carried an unexpected failure (and raises one of those),
\* and returns otherwise.
C9_ReraiseAfterDrain ==
    /\ Ended =>
          /\ Universe \subseteq finished \cup failed
          /\ \A o \in Universe : Cardinality(EventsOf(o)) >= 1
          /\ \A i \in DOMAIN queue : queue[i] = STOP
          /\ running = {}
          /\ \A o \in Universe : TransDeps(o) \cap failed = {} => invoked[o] = 1
          /\ (pc = "raised") <=> (UnexpectedEvents # {})
    /\ pc = "raised" =>
          \E i \in UnexpectedEvents : error_to_reraise = events[i]

\* S3: two independent objects, one raised an unexpected failure and the
\* other, handled after it, succeeded; the error was re-raised at the end.
C9_Witness ==
    /\ pc = "raised"
    /\ Len(events) = 2
    /\ events[1].kind = Unexpected
    /\ events[2].kind = Ok
    /\ results = <<events[2].obj>>

InjectiveNames ==
    \A o1, o2 \in Universe : name[o1] = name[o2] => o1 = o2

ErrorKeys == {n \in DOMAIN errors : errors[n] # NoEntry}

\* C10: with an injective name function, after the drain the keys of errors
\* are exactly the names of the objects whose own work function raised; an
\* upstream-failed object never has an entry, while (display enabled) its
\* status line has been rewritten with 'error'.
C10_ErrorsOnlyForOwnFailures ==
    InjectiveNames =>
        /\ Ended =>
              ErrorKeys = {name[events[i].obj] :
                              i \in {j \in DOMAIN events :
                                        events[j].kind \in WorkerFailure}}
        /\ \A i \in DOMAIN events :
              events[i].kind = UpstreamError =>
                 /\ name[events[i].obj] \notin ErrorKeys
                 /\ msg # None =>
                       \E k \in DOMAIN stream :
                           stream[k] = <<"text", name[events[i].obj], "error">>

\* A drained run, display enabled, with one failure of each kind of the
\* object's own and one upstream failure.
C10_Witness ==
    /\ InjectiveNames
    /\ msg # None
    /\ Ended
    /\ \E i \in DOMAIN events : events[i].kind = UpstreamError
    /\ \E i \in DOMAIN events : events[i].kind \in WorkerFailure
    /\ \E i \in DOMAIN events : events[i].kind = Ok

\* Number of entries of results that belong to o (func(o)'s return value).
ResultsOf(o) == {i \in DOMAIN results : results[i] = o}

\* C11: when parallel_execute returns, results holds exactly one entry for
\* each object whose work function returned normally and none for any other
\* object; if no work function failed and there are no in-universe
\* dependencies, len(results) is the number of objects and errors is empty.
C11_ResultsAreTheSuccesses ==
    pc = "returned" =>
        /\ \A o \in Objs :
              Cardinality(ResultsOf(o)) =
                 IF \E i \in EventsOf(o) : events[i].kind = Ok THEN 1 ELSE 0
        /\ Len(results) = Cardinality(finished)
        /\ ((\A o \in Universe : UDeps(o) = {}) /\
             (\A i \in DOMAIN events : events[i].kind = Ok)) =>
                /\ Len(results) = Len(objects)
                /\ ErrorKeys = {}

\* parallel_execute has returned for three objects: two succeeded, in the
\* order opposite to the list's, and one raised APIError.
C11_Witness ==
    /\ pc = "returned"
    /\ Len(objects) = 3
    /\ Len(results) = 2
    /\ results[1] > results[2]
    /\ \E i \in DOMAIN events : events[i].kind = APIError

\* No name is registered twice.
DistinctLines == \A i, j \in DOMAIN lines : lines[i] = lines[j] => i = j

\* The status of the last write(n, ...) that returned, "" if there is none.
LastStatus(n) ==
    LET W == {k \in DOMAIN calls : calls[k][1] = "write" /\ calls[k][2] = n}
    IN  IF W = {} THEN ""
        ELSE calls[CHOOSE k \in W : \A j \in W : j <= k][3]

\* 0-based row on which n was registered.
RowOf(n) == (CHOOSE i \in DOMAIN lines : lines[i] = n) - 1

\* C12: display enabled, distinct registered names.  After any sequence of
\* initialize and write calls the cursor is on the row just below the last
\* registered line and every registered row shows its name with the status
\* last written for it; write(n, status) emits up diff, erase, the status
\* text, down diff with diff = len(lines) - index(n), and the up lands on
\* the row where n was registered.
C12_WriteLandsOnRegisteredRow ==
    /\ []((msg # None /\ DistinctLines) =>
            /\ Terminal(stream).row = Len(lines)
            /\ Len(Terminal(stream).screen) = Len(lines)
            /\ \A i \in DOMAIN lines :
                  Terminal(stream).screen[i] = <<lines[i], LastStatus(lines[i])>>)
    /\ [][\A n \in Objs, status \in Statuses :
            (/\ msg # None /\ DistinctLines
             /\ calls' = Append(calls, <<"write", n, status>>)) =>
               LET diff == Len(lines) - RowOf(n)
               IN  /\ stream' = stream \o << <<"up", diff, "">>,
                                              <<"erase", 0, "">>,
                                              <<"text", n, status>>,
                                              <<"down", diff, "">> >>
                   /\ Terminal(Append(stream, <<"up", diff, "">>)).row = RowOf(n)
                   /\ lines' = lines]_vars

\* S4 followed by one more update: two names registered, the second one
\* updated (up 1, down 1), then the first one (up 2, down 2).
C12_Witness ==
    /\ msg # None
    /\ Len(lines) = 2 /\ DistinctLines
    /\ Len(calls) = 4
    /\ calls[3] = <<"write", lines[2], "done">>
    /\ calls[4] = <<"write", lines[1], "error">>
    /\ stream[3] = <<"up", 1, "">> /\ stream[6] = <<"down", 1, "">>
    /\ stream[7] = <<"up", 2, "">>

\* C13: with display disabled initialize and write do nothing, whatever the
\* calls and the names: nothing is registered, nothing is written, and
\* write does not raise for a name that was never registered.
C13_DisabledWriterIsNoOp ==
    msg = None =>
        /\ lines = <<>>
        /\ stream = <<>>
        /\ \A k \in DOMAIN calls : calls[k][1] # "ValueError"

\* Display disabled: an initialize, a write for that name and a write for
\* a name never passed to initialize have been made.
C13_Witness ==
    /\ msg = None
    /\ \E n, m \in Objs :
          /\ n # m
          /\ \E k \in DOMAIN calls : calls[k] = <<"initialize", n, "">>
          /\ \E k \in DOMAIN calls : calls[k] = <<"write", n, "done">>
          /\ \E k \in DOMAIN calls : calls[k] = <<"write", m, "error">>
          /\ \A k \in DOMAIN calls : calls[k] # <<"initialize", m, "">>

\* C14: the yielded sequence respects the dependency relation.  The event
\* of a started object (success or worker-raised failure) comes after a
\* success event of each of its in-universe dependencies; an UpstreamError
\* event comes after a failure event of one of the object's dependencies.
C14_EventsRespectDependencies ==
    \A i \in DOMAIN events :
        LET o == events[i].obj IN
        /\ events[i].kind \in {Ok} \cup WorkerFailure =>
              \A d \in UDeps(o) :
                  \E j \in 1..(i - 1) : events[j] = Event(d, Ok)
        /\ events[i].kind = UpstreamError =>
              \E d \in deps[o] :
                  \E j \in 1..(i - 1) : events[j].obj = d /\ events[j].kind # Ok

\* S1: the chain A <- B <- C, work always succeeding: events A, B, C.
C14_Witness ==
    /\ Len(events) = 3
    /\ \A i \in 1..3 : events[i].kind = Ok
    /\ events[1].obj \in deps[events[2].obj]
    /\ events[2].obj \in deps[events[3].obj]
    /\ events[1].obj # events[2].obj /\ events[2].obj # events[3].obj

\* A chain in which the failure is passed on twice: A raised, B and C were
\* short-circuited, events A, B, C.
C14_WitnessUpstream ==
    /\ Len(events) = 3
    /\ events[1].kind \in WorkerFailure
    /\ events[2].kind = UpstreamError /\ events[3].kind = UpstreamError
    /\ deps[events[2].obj] = {events[1].obj}
    /\ deps[events[3].obj] = {events[2].obj}

\* results.get is about to return STOP.
AtStop == pc = "get" /\ queue # <<>> /\ Head(queue) = STOP

PassEnds == pc = "feed" /\ pc' = "get"

\* C16 as stated: at the end of every admission pass no object is pending
\* while one of its dependencies is in failed, whatever the visiting order.
C16_NoPendingWithFailedDep ==
    [][PassEnds =>
          \A o \in pending(started', finished', failed') :
              \A d \in deps[o] : d \notin failed']_vars

\* Outcome of the admission pass that visits the pending set in `order`.
pass(order) ==
    feed_loop(order, 1, [started |-> started, finished |-> finished,
                         failed |-> failed, queue |-> queue,
                         running |-> running, invoked |-> invoked])

\* C16 as amended: at the end of every admission pass no object is pending
\* while one of its dependencies was in failed when the pass visited it:
\* none of its dependencies was in failed at the start of the pass, and a
\* dependency that is in failed at the end was marked failed by the pass
\* itself, at a later position of the visiting order than the object.
C16_CascadeInVisitingOrder ==
    /\ [][PassEnds =>
            \A o \in pending(started', finished', failed') :
                \A d \in deps[o] : d \notin failed]_vars
    /\ [](pc = "feed" =>
            \A order \in Orders(pending(started, finished, failed)) :
                \A k \in DOMAIN order :
                    order[k] \in pending(pass(order).started,
                                         pass(order).finished,
                                         pass(order).failed) =>
                       \A d \in deps[order[k]] \cap pass(order).failed :
                           \E j \in (k + 1)..Len(order) : order[j] = d)

\* One pass has short-circuited b and then c, which depends on b alone:
\* both upstream tuples are on the queue, b's first.
C16_Witness ==
    /\ pc = "get"
    /\ \E b, c \in Universe :
          /\ b # c
          /\ deps[c] = {b}
          /\ \E i, j \in DOMAIN queue :
                /\ i < j
                /\ queue[i] = Event(b, UpstreamError)
                /\ queue[j] = Event(c, UpstreamError)

\* C17: an admission pass starts every object that was pending at its
\* start, has no dependency in failed and has each dependency outside the
\* universe or in finished: there is no cap on the threads started, and a
\* dependency outside the universe delays nothing.  With no in-universe
\* dependencies at all the first pass starts a thread for every object.
C17_AdmissionIsMaximal ==
    [][PassEnds =>
          /\ \A o \in pending(started, finished, failed) :
                (/\ \A d \in deps[o] : d \notin failed
                 /\ \A d \in deps[o] : d \notin Universe \/ d \in finished) =>
                   /\ o \in started'
                   /\ o \in running'
                   /\ invoked'[o] = 1
          /\ (started = {} /\ \A o \in Universe : UDeps(o) = {}) =>
                /\ started' = Universe
                /\ running' = Universe]_vars

\* The first pass has started a thread for each of several objects at
\* once, one of which has a dependency outside the universe.
C17_Witness ==
    /\ pc = "get"
    /\ events = <<>>
    /\ Cardinality(Universe) >= 2
    /\ running = Universe
    /\ \E o \in Universe : deps[o] \ Universe # {}

\* Objects whose own work function raised: a worker-failure tuple was put.
Raised ==
    {o \in Universe :
        \/ \E i \in EventsOf(o) : events[i].kind \in WorkerFailure
        \/ \E i \in QueuedOf(o) : queue[i].kind \in WorkerFailure}

\* C18: failures propagate only along dependencies.  An UpstreamError tuple
\* exists for o only if the work function of some object among o's
\* transitive in-universe dependencies raised; and an object whose
\* transitive in-universe dependencies have all succeeded gets its work
\* function invoked, whatever has failed elsewhere.
C18_FailuresFollowDependencies ==
    /\ [](\A o \in Universe :
            (\/ \E i \in EventsOf(o) : events[i].kind = UpstreamError
             \/ \E i \in QueuedOf(o) : queue[i].kind = UpstreamError) =>
                TransDeps(o) \cap Raised # {})
    /\ [](\A o \in Universe :
            (Ended /\ TransDeps(o) \subseteq finished) => invoked[o] = 1)
    /\ \A o \in Objs :
          (o \in Universe /\ TransDeps(o) \subseteq finished) ~> (invoked[o] = 1)

\* Two siblings depend on nothing and on a succeeded object: one sibling's
\* work function raised, the other's, handled later, was still invoked
\* and succeeded.
C18_Witness ==
    \E a, b, c \in Universe :
        /\ a # b /\ b # c /\ a # c
        /\ deps[c] = {b} /\ deps[a] = {} /\ deps[b] = {}
        /\ Len(events) = 3
        /\ events[1] = Event(a, Unexpected)
        /\ events[2] = Event(b, Ok)
        /\ events[3] = Event(c, Ok)
        /\ invoked[c] = 1

\* C19: the per-object state machine PENDING -> STARTED -> {FINISHED |
\* FAILED} with the one extra edge PENDING -> FAILED.  An object in finished
\* was started; an object enters failed without having been started only
\* in an admission pass, with one of its dependencies in failed; a started
\* object never gets an UpstreamError tuple; an object in finished or
\* failed stays there, never enters the other set and is never pending.
C19_ObjectStateMachine ==
    /\ [](/\ finished \subseteq started
          /\ \A o \in started :
                /\ \A i \in EventsOf(o) : events[i].kind # UpstreamError
                /\ \A i \in QueuedOf(o) : queue[i].kind # UpstreamError
          /\ pending(started, finished, failed) \cap (finished \cup failed) = {})
    /\ [][\A o \in Objs :
            /\ (o \in started' /\ o \notin started) =>
                  o \in pending(started, finished, failed)
            /\ (o \in finished' /\ o \notin finished) => o \in started
            /\ (o \in failed' /\ o \notin failed /\ o \notin started) =>
                  /\ PassEnds
                  /\ o \in pending(started, finished, failed)
                  /\ o \notin started'
                  /\ \E d \in deps[o] : d \in failed'
            /\ (o \in failed' /\ o \notin failed /\ o \in started) =>
                  (pc = "get" /\ Head(queue).obj = o
                              /\ Head(queue).kind \in WorkerFailure)
            /\ o \in finished => (o \in finished' /\ o \notin failed')
            /\ o \in failed => (o \in failed' /\ o \notin finished')]_vars

\* All three edges have been taken: a was started and finished, b was
\* started and failed, c went from pending to failed by the shortcut.
C19_Witness ==
    \E a, b, c \in Universe :
        /\ a \in started \cap finished
        /\ b \in started \cap failed
        /\ c \in failed \ started
        /\ EventsOf(c) # {}

\* What the coordinator owns: State, the yielded events, the aggregator's
\* locals and the writer.
coordinator_vars ==
    <<started, finished, failed, invoked, events, results, errors,
      error_to_reraise, lines, stream>>

\* C20: an interrupted wait ends the event sequence with ShutdownException.
\* The step that raises it happens at results.get, yields no event, adds
\* nothing to finished or failed, takes nothing from the queue and leaves
\* the running producers running; afterwards the coordinator does nothing
\* more.  A timeout (Empty) changes nothing but the position of the
\* coordinator, which goes back to the admission pass.
C20_InterruptRaisesShutdown ==
    /\ [][(pc' = "shutdown" /\ pc # "shutdown") =>
            /\ pc = "get"
            /\ UNCHANGED <<coordinator_vars, queue, running>>]_vars
    /\ [][pc = "shutdown" =>
            /\ pc' = "shutdown"
            /\ UNCHANGED coordinator_vars
            /\ Len(queue') >= Len(queue)]_vars
    /\ [][(pc = "get" /\ queue = <<>> /\ pc' # pc) =>
            /\ pc' \in {"feed", "shutdown"}
            /\ UNCHANGED <<coordinator_vars, queue, running>>]_vars

\* The wait was interrupted after one event had been yielded, while a
\* producer was still running and another outcome was on the queue.
C20_Witness ==
    /\ pc = "shutdown"
    /\ Len(events) = 1
    /\ running # {}
    /\ \E i \in DOMAIN queue : queue[i] # STOP

====
